---------------------------- MODULE Spec2Model ----------------------------
(***************************************************************************)
(* Model of the workout-logging page of src/script.js: the Workout,        *)
(* Running and Cycling classes and the App class (constructor, location    *)
(* callbacks, map click, form submission, list click, local storage).      *)
(*                                                                         *)
(* JavaScript runs every handler to completion, so each handler is one     *)
(* action.  Values keep their JavaScript kind: form inputs are texts       *)
(* (sequences of characters) converted by Number(); numbers are exact      *)
(* rationals, NaN or +-Infinity; Date.now() is a string of decimal digits; *)
(* a Date object and the ISO string JSON turns it into are different       *)
(* values; an object carries its prototype.                                *)
(***************************************************************************)
EXTENDS Integers, Sequences, FiniteSets, TLC

(***************************************************************************)
(* Bounds of the model (the code has none of them).                        *)
(***************************************************************************)
MaxWorkouts == 2      \* entries the in-memory log may hold
MaxClock == 1         \* milliseconds that may pass after the page loads

(***************************************************************************)
(* Program constant.                                                       *)
(***************************************************************************)
IdLength == 10        \* Date.now().toString().slice(-10)

VARIABLES
  phase,          \* "load": script not run yet; "ready": constructor returned;
                  \* "aborted": constructor threw before registering listeners
  geo,            \* navigator.geolocation: "unsupported", "idle", "pending",
                  \* "granted", "denied"
  map,            \* this.#map: whether the Leaflet map exists
  mapEvent,       \* this.#mapEvent
  workouts,       \* this.#workouts
  storage,        \* localStorage item 'workouts'
  storageMode,    \* "ok", "denied" (every access throws), "full" (setItem throws)
  data,           \* what _getLocalStorage read at startup
  listItems,      \* list-item renders issued (_renderWorkout), in order
  markers,        \* marker renders issued (_renderWorkoutMarker), in order
  inputType, inputDistance, inputDuration, inputCadence, inputElevation,
  formHidden,     \* form has class 'hidden'
  elevationRowHidden,  \* the elevation row has class 'form__row--hidden'
  clock,          \* milliseconds after the page load at the last Date.now()
  last            \* how the last event ended: "ok", or the alert shown
                  \* ("alert", "locationAlert"), the error left uncaught
                  \* ("TypeError", "TypeError(setView)",
                  \* "TypeError(coordinates)", "SecurityError",
                  \* "QuotaExceededError") or the map view requested
                  \* ("setView")

form == <<inputType, inputDistance, inputDuration, inputCadence, inputElevation,
          formHidden, elevationRowHidden>>
vars == <<phase, geo, map, mapEvent, workouts, storage, storageMode, data,
          listItems, markers, form, clock, last>>

-----------------------------------------------------------------------------
(***************************************************************************)
(* Numbers.                                                                *)
(***************************************************************************)
Num(i) == [k |-> "fin", n |-> i, d |-> 1]
NaN == [k |-> "nan", n |-> 0, d |-> 1]
Infinity(sign) == [k |-> "inf", n |-> sign, d |-> 1]
Null == [k |-> "null", n |-> 0, d |-> 1]

Abs(i) == IF i < 0 THEN -i ELSE i

RECURSIVE GCD(_, _)
GCD(a, b) == IF b = 0 THEN a ELSE GCD(b, a % b)

\* the rational p/q (q # 0) in lowest terms with a positive denominator
Ratio(p, q) ==
  LET g == GCD(Abs(p), Abs(q))
      s == IF q < 0 THEN -1 ELSE 1
  IN  [k |-> "fin", n |-> s * (p \div g), d |-> s * (q \div g)]

Sign(x) == IF x.n < 0 THEN -1 ELSE 1

\* the JavaScript operator / (rounding and overflow of doubles left out)
Div(a, b) ==
  CASE a.k = "nan" \/ b.k = "nan" -> NaN
    [] a.k = "null" \/ b.k = "null" -> NaN
    [] a.k = "inf" /\ b.k = "inf" -> NaN
    [] a.k = "inf" -> Infinity(Sign(a) * Sign(b))
    [] b.k = "inf" -> Num(0)
    [] b.n = 0 -> IF a.n = 0 THEN NaN ELSE Infinity(Sign(a))
    [] OTHER -> Ratio(a.n * b.d, a.d * b.n)

isFinite(x) == x.k = "fin"

\* inp > 0
GreaterThanZero(x) == (x.k = "fin" /\ x.n > 0) \/ (x.k = "inf" /\ x.n > 0)

(***************************************************************************)
(* Number(text) for the texts the form can hold here: the empty text,      *)
(* decimal integers with an optional sign, Infinity, anything else.        *)
(***************************************************************************)
Digits == {"0", "1", "2", "3", "4", "5", "6", "7", "8", "9"}
DigitVal == ("0" :> 0) @@ ("1" :> 1) @@ ("2" :> 2) @@ ("3" :> 3) @@ ("4" :> 4)
            @@ ("5" :> 5) @@ ("6" :> 6) @@ ("7" :> 7) @@ ("8" :> 8) @@ ("9" :> 9)
InfinityText == <<"I", "n", "f", "i", "n", "i", "t", "y">>

AllDigits(t) == Len(t) > 0 /\ \A i \in 1..Len(t) : t[i] \in Digits

RECURSIVE ParseDigits(_)
ParseDigits(t) ==
  IF t = <<>> THEN 0
  ELSE 10 * ParseDigits(SubSeq(t, 1, Len(t) - 1)) + DigitVal[t[Len(t)]]

Unsigned(t) ==
  IF t = InfinityText THEN Infinity(1)
  ELSE IF AllDigits(t) THEN Num(ParseDigits(t))
  ELSE NaN

Negate(x) == IF x.k = "nan" THEN x ELSE [x EXCEPT !.n = -x.n]

Number(t) ==
  IF t = <<>> THEN Num(0)
  ELSE IF Head(t) = "-" THEN Negate(Unsigned(Tail(t)))
  ELSE IF Head(t) = "+" THEN Unsigned(Tail(t))
  ELSE Unsigned(t)

-----------------------------------------------------------------------------
(***************************************************************************)
(* Time.  Date.now() is the page-load instant plus the milliseconds that   *)
(* have passed, written in decimal digits (13 of them nowadays).           *)
(***************************************************************************)
PageLoadTime == <<1, 7, 6, 2, 2, 0, 0, 0, 0, 0, 0, 0, 0>>

RECURSIVE Succ(_)
Succ(ds) ==
  IF ds = <<>> THEN <<1>>
  ELSE IF ds[Len(ds)] = 9 THEN Succ(SubSeq(ds, 1, Len(ds) - 1)) \o <<0>>
  ELSE SubSeq(ds, 1, Len(ds) - 1) \o <<ds[Len(ds)] + 1>>

RECURSIVE AddMs(_, _)
AddMs(ds, n) == IF n = 0 THEN ds ELSE AddMs(Succ(ds), n - 1)

DateNow(c) == AddMs(PageLoadTime, c)

\* str.slice(-n): the last n characters, the whole string when it is shorter
SliceLast(str, n) ==
  IF Len(str) <= n THEN str ELSE SubSeq(str, Len(str) - n + 1, Len(str))

(***************************************************************************)
(* class Workout, class Running, class Cycling.                            *)
(***************************************************************************)
\* new Date() at instant t
NewDate(t) == [tag |-> "Date", ms |-> t]

\* id = Date.now().toString().slice(-10)
WorkoutId(t) == SliceLast(t, IdLength)

\* type[0].toUpperCase() + type.slice(1)
Capitalize(type) == IF type = "running" THEN "Running" ELSE "Cycling"

\* months[date.getMonth()] and date.getDate(): the calendar day, here the
\* instant cut to its five leading digits (10^8 ms, a little over a day)
MonthAndDay(date) == SubSeq(date.ms, 1, 5)

\* _setDescription: `${Type} on ${month} ${day}`
setDescription(type, date) == [cap |-> Capitalize(type), on |-> MonthAndDay(date)]

calcPace(duration, distance) == Div(duration, distance)

\* faulty variant: km per minute, the division by 60 left out
calcSpeedPerMinute(distance, duration) == Div(distance, duration)

calcSpeed(distance, duration) == Div(distance, Div(duration, Num(60)))

\* new Running(coordinates, distance, duration, cadence) at instant t
Running(coordinates, distance, duration, cadence, t) ==
  [proto |-> "Running", date |-> NewDate(t), id |-> WorkoutId(t),
   coordinates |-> coordinates, distance |-> distance, duration |-> duration,
   type |-> "running", cadence |-> cadence,
   pace |-> calcPace(duration, distance),
   description |-> setDescription("running", NewDate(t))]

\* new Cycling(coordinates, distance, duration, elevation) at instant t
Cycling(coordinates, distance, duration, elevation, t) ==
  [proto |-> "Cycling", date |-> NewDate(t), id |-> WorkoutId(t),
   coordinates |-> coordinates, distance |-> distance, duration |-> duration,
   type |-> "cycling", elevation |-> elevation,
   speed |-> calcSpeed(distance, duration),
   description |-> setDescription("cycling", NewDate(t))]

\* the derived metric a workout stores
Metric(w) == IF w.type = "running" THEN w.pace ELSE w.speed

(***************************************************************************)
(* JSON.  A JSON text is modelled by the value it denotes: a sequence of   *)
(* records of numbers, strings, null and arrays.  JSON.stringify writes an *)
(* object's own fields (not its prototype), a Date as its ISO string, a    *)
(* non-finite number as null; JSON.parse builds plain objects.             *)
(***************************************************************************)
JSONNumber(x) == IF x.k = "fin" THEN x ELSE Null

\* Date.prototype.toJSON; a string stays a string
JSONDate(date) == IF date.tag = "Date" THEN [tag |-> "string", ms |-> date.ms] ELSE date

JSONArray(xs) == [i \in 1..Len(xs) |-> JSONNumber(xs[i])]

StringifyWorkout(w) ==
  IF w.type = "running"
  THEN [date |-> JSONDate(w.date), id |-> w.id,
        coordinates |-> JSONArray(w.coordinates),
        distance |-> JSONNumber(w.distance), duration |-> JSONNumber(w.duration),
        type |-> w.type, cadence |-> JSONNumber(w.cadence),
        pace |-> JSONNumber(w.pace), description |-> w.description]
  ELSE [date |-> JSONDate(w.date), id |-> w.id,
        coordinates |-> JSONArray(w.coordinates),
        distance |-> JSONNumber(w.distance), duration |-> JSONNumber(w.duration),
        type |-> w.type, elevation |-> JSONNumber(w.elevation),
        speed |-> JSONNumber(w.speed), description |-> w.description]

\* JSON.stringify(this.#workouts)
JSONstringify(ws) == [i \in 1..Len(ws) |-> StringifyWorkout(ws[i])]

\* faulty variant: the derived metric is computed again from distance and duration
ParseWorkoutRecomputing(j) ==
  IF j.type = "running"
  THEN [proto |-> "Object", date |-> j.date, id |-> j.id,
        coordinates |-> j.coordinates, distance |-> j.distance,
        duration |-> j.duration, type |-> j.type, cadence |-> j.cadence,
        pace |-> calcPace(j.duration, j.distance),
        description |-> j.description]
  ELSE [proto |-> "Object", date |-> j.date, id |-> j.id,
        coordinates |-> j.coordinates, distance |-> j.distance,
        duration |-> j.duration, type |-> j.type, elevation |-> j.elevation,
        speed |-> calcSpeed(j.distance, j.duration),
        description |-> j.description]

ParseWorkout(j) ==
  IF j.type = "running"
  THEN [proto |-> "Object", date |-> j.date, id |-> j.id,
        coordinates |-> j.coordinates, distance |-> j.distance,
        duration |-> j.duration, type |-> j.type, cadence |-> j.cadence,
        pace |-> j.pace, description |-> j.description]
  ELSE [proto |-> "Object", date |-> j.date, id |-> j.id,
        coordinates |-> j.coordinates, distance |-> j.distance,
        duration |-> j.duration, type |-> j.type, elevation |-> j.elevation,
        speed |-> j.speed, description |-> j.description]

\* JSON.parse(text) of a stored array
JSONparse(text) == [i \in 1..Len(text) |-> ParseWorkout(text[i])]

\* the local storage item: absent (getItem gives null) or a JSON text
NoItem == [present |-> FALSE, text |-> <<>>]
Item(text) == [present |-> TRUE, text |-> text]

-----------------------------------------------------------------------------
(***************************************************************************)
(* The inputs of the model: what the user types and clicks, where the      *)
(* browser locates the user, what earlier sessions left in local storage.  *)
(***************************************************************************)
NoMapEvent == [set |-> FALSE, latlng |-> <<Num(0), Num(0)>>]
MapClick(latlng) == [set |-> TRUE, latlng |-> latlng]
ClickPoints == {<<Ratio(407, 10), Ratio(-739, 10)>>, <<Num(51), Num(0)>>}

NoMap == [ready |-> FALSE]

\* texts typed into distance, duration, cadence, elevation
Filled == <<<<"5">>, <<"3", "0">>, <<"1", "7", "0">>, <<"-", "2", "0">>>>
Cleared == <<<<>>, <<>>, <<>>, <<>>>>
\* acceptable forms of several distances and durations; 7 / 2 and
\* 2 / (7 / 60) are no whole numbers, 10 / (45 / 60) is no decimal fraction
Uphill == <<<<"2">>, <<"7">>, <<"1", "6", "5">>, <<"0">>>>
Steady == <<<<"1", "0">>, <<"4", "5">>, <<"1", "7", "5">>, <<"1", "2">>>>
MetricTexts == {Filled, Uphill, Steady}

FormTexts ==
  { Filled, Cleared,
    [Filled EXCEPT ![1] = <<"-", "5">>],
    [Filled EXCEPT ![2] = <<"a", "b", "c">>],
    [Filled EXCEPT ![3] = <<>>],
    [Filled EXCEPT ![3] = <<"-", "3">>],
    [Filled EXCEPT ![3] = InfinityText],
    [Filled EXCEPT ![4] = <<"a", "b", "c">>] }

\* a list item that no entry of the log stands behind
StaleId == <<0, 0, 0, 0, 0, 0, 0, 0, 0, 0>>

\* A running workout logged two days before this page load.
EarlierTime == <<1, 7, 6, 2, 0, 2, 7, 2, 0, 0, 0, 0, 0>>
OldRunning ==
  StringifyWorkout(Running(<<Num(51), Num(0)>>, Num(10), Num(50), Num(180),
                           EarlierTime))

\* A cycling record whose stored speed is not distance / (duration / 60).
StaleTime == <<1, 7, 6, 2, 1, 1, 3, 6, 0, 0, 0, 0, 0>>
StaleCycling ==
  [StringifyWorkout(Cycling(<<Num(46), Num(23)>>, Num(20), Num(95), Num(300),
                            StaleTime))
     EXCEPT !.speed = Num(12)]

\* The item after somebody edited it by hand (the browser's storage inspector,
\* another script of the origin): the distance is negative.
EditedRunning == [OldRunning EXCEPT !.distance = Num(-5), !.pace = Num(-10)]

Snapshots ==
  {NoItem, Item(<<OldRunning>>), Item(<<OldRunning, StaleCycling>>),
   Item(<<EditedRunning>>)}

-----------------------------------------------------------------------------
Init ==
  /\ phase = "load"
  /\ geo \in {"unsupported", "idle"}
  /\ map = NoMap
  /\ mapEvent = NoMapEvent
  /\ workouts = <<>>
  /\ storageMode \in {"ok", "denied", "full"}
  /\ storage \in {s \in Snapshots : Len(s.text) <= MaxWorkouts}
  \* what the item holds matters to a session only if it can read it
  /\ storageMode # "ok" => storage = Item(<<OldRunning>>)
  /\ data = NoItem
  /\ listItems = <<>>
  /\ markers = <<>>
  /\ inputType = "running"
  /\ inputDistance = <<>>
  /\ inputDuration = <<>>
  /\ inputCadence = <<>>
  /\ inputElevation = <<>>
  /\ formHidden = TRUE
  /\ elevationRowHidden = TRUE
  /\ clock = 0
  /\ last = "ok"

(***************************************************************************)
(* _renderWorkout(workout): inserts the list item; pace.toFixed(1) or      *)
(* speed.toFixed(1) throws a TypeError when the metric is not a number.    *)
(***************************************************************************)
renderWorkoutThrows(w) == Metric(w).k = "null"

\* faulty variant: the list items are rendered last entry first
RenderedReversed(ws) == [i \in 1..Len(ws) |-> ws[Len(ws) + 1 - i]]

\* the workouts _renderWorkout gets through before one makes it throw
RECURSIVE RenderedPrefix(_)
RenderedPrefix(ws) ==
  IF ws = <<>> \/ renderWorkoutThrows(Head(ws)) THEN <<>>
  ELSE <<Head(ws)>> \o RenderedPrefix(Tail(ws))

(***************************************************************************)
(* new App(): _getPosition, _getLocalStorage, then the listeners.          *)
(***************************************************************************)
getPosition == IF geo = "idle" THEN "pending" ELSE geo

constructor ==
  /\ phase = "load"
  /\ geo' = getPosition
  /\ IF storageMode = "denied"
     THEN \* localStorage.getItem throws: the constructor stops at line 75
          /\ phase' = "aborted"
          /\ last' = "SecurityError"
          /\ UNCHANGED <<workouts, data, listItems>>
     ELSE IF ~storage.present
     THEN \* if (!data) return
          /\ phase' = "ready"
          /\ data' = storage
          /\ last' = "ok"
          /\ UNCHANGED <<workouts, listItems>>
     ELSE LET parsed == JSONparse(storage.text)
              shown == RenderedPrefix(parsed)
          IN  /\ data' = storage
              /\ workouts' = parsed
              /\ listItems' = listItems \o shown
              /\ IF Len(shown) = Len(parsed)
                 THEN /\ phase' = "ready"
                      /\ last' = "ok"
                 ELSE /\ phase' = "aborted"
                      /\ last' = "TypeError"
  /\ UNCHANGED <<map, mapEvent, storage, storageMode, markers, form, clock>>

(***************************************************************************)
(* The location callbacks of getCurrentPosition.  They run after the       *)
(* constructor has returned or thrown, never inside it.                    *)
(***************************************************************************)
\* faulty variant: the walk over the log starts at its second entry
loadMapMarkersFromSecond(ws) == IF ws = <<>> THEN <<>> ELSE Tail(ws)

\* faulty variant: _loadMap does not walk the log
loadMapNoMarkers(ws) == <<>>

\* _loadMap line 117: this.#workouts.forEach(w => this._renderWorkoutMarker(w))
loadMapMarkers(ws) == ws

loadMap ==
  /\ phase # "load"
  /\ geo = "pending"
  /\ geo' = "granted"
  /\ map' = [ready |-> TRUE]
  /\ markers' = markers \o loadMapMarkers(workouts)
  /\ last' = "ok"
  /\ UNCHANGED <<phase, mapEvent, workouts, storage, storageMode, data,
                 listItems, form, clock>>

\* the error callback: alert('Cannot access your location')
locationError ==
  /\ phase # "load"
  /\ geo = "pending"
  /\ geo' = "denied"
  /\ last' = "locationAlert"
  /\ UNCHANGED <<phase, map, mapEvent, workouts, storage, storageMode, data,
                 listItems, markers, form, clock>>

(***************************************************************************)
(* _showForm(mapE): a click on the map, which exists once _loadMap ran.    *)
(***************************************************************************)
\* faulty variant: the click listener is set up by the constructor
mapClickableFromStart == phase = "ready"

\* line 114: this.#map.on('click', ...) is reached inside _loadMap
mapClickable == map.ready

\* a click at one of the given points of the map
showFormAt(points) ==
  /\ mapClickable
  /\ \E latlng \in points : mapEvent' = MapClick(latlng)
  /\ formHidden' = FALSE
  /\ last' = "ok"
  /\ UNCHANGED <<phase, geo, map, workouts, storage, storageMode, data,
                 listItems, markers, inputType, inputDistance, inputDuration,
                 inputCadence, inputElevation, elevationRowHidden, clock>>

showForm == showFormAt(ClickPoints)

(***************************************************************************)
(* The user at the form: typing into the four inputs, and changing the     *)
(* type, whose 'change' listener is _toggleElevationField.  The class      *)
(* 'hidden' is styling: nothing in the script keeps a hidden form from     *)
(* being typed into or submitted.  The inputs are read by the submit       *)
(* listener alone, so they are followed only in sessions that have it.     *)
(***************************************************************************)
\* the four inputs filled with one of the given forms
typeInputsFrom(texts) ==
  /\ phase = "ready"
  /\ \E t \in texts :
       /\ <<inputDistance, inputDuration, inputCadence, inputElevation>> # t
       /\ inputDistance' = t[1]
       /\ inputDuration' = t[2]
       /\ inputCadence' = t[3]
       /\ inputElevation' = t[4]
  /\ UNCHANGED <<phase, geo, map, mapEvent, workouts, storage, storageMode,
                 data, listItems, markers, inputType, formHidden,
                 elevationRowHidden, clock>>
  /\ last' = "ok"

typeInputs == typeInputsFrom(FormTexts)

toggleElevationField ==
  /\ phase = "ready"
  /\ inputType' = IF inputType = "running" THEN "cycling" ELSE "running"
  /\ elevationRowHidden' = ~elevationRowHidden
  /\ UNCHANGED <<phase, geo, map, mapEvent, workouts, storage, storageMode,
                 data, listItems, markers, inputDistance, inputDuration,
                 inputCadence, inputElevation, formHidden, clock>>
  /\ last' = "ok"

(***************************************************************************)
(* _newWorkout(e): the form's submit listener.                             *)
(***************************************************************************)
\* inputs.every(inp => Number.isFinite(inp))
validInputs(inputs) == \A i \in 1..Len(inputs) : isFinite(inputs[i])

\* inputs.every(inp => inp > 0)
allPositive(inputs) == \A i \in 1..Len(inputs) : GreaterThanZero(inputs[i])

\* line 152: destructuring this.#mapEvent.latlng throws when no map was clicked
mapEventThrows(mapE) == ~mapE.set

\* lines 160-165: the guard of the running branch
runningRejected(distance, duration, cadence) ==
  \/ ~isFinite(distance)
  \/ ~isFinite(duration)
  \/ ~isFinite(cadence)
  \/ ~allPositive(<<distance, duration, cadence>>)

\* faulty variant: the elevation has to be positive too
cyclingRejectedStrict(distance, duration, elevation) ==
  \/ ~validInputs(<<distance, duration, elevation>>)
  \/ ~allPositive(<<distance, duration, elevation>>)

\* lines 173-176: the guard of the cycling branch
cyclingRejected(distance, duration, elevation) ==
  \/ ~validInputs(<<distance, duration, elevation>>)
  \/ ~allPositive(<<distance, duration>>)

\* whether the submit returns at one of the two alerts
rejected ==
  IF inputType = "running"
  THEN runningRejected(Number(inputDistance), Number(inputDuration),
                       Number(inputCadence))
  ELSE cyclingRejected(Number(inputDistance), Number(inputDuration),
                       Number(inputElevation))

\* faulty variant: a submit turned down forgets the map click
mapEventDiscarded(mapE) == NoMapEvent

\* lines 166 and 178: return alert(...) leaves this.#mapEvent as _showForm set it
mapEventAfterAlert(mapE) == mapE

\* faulty variant: latitude and longitude change places
coordinatesSwapped(mapE) == <<mapE.latlng[2], mapE.latlng[1]>>

\* lines 152, 167, 179: const { lat, lng } = this.#mapEvent.latlng; [lat, lng]
coordinatesOf(mapE) == <<mapE.latlng[1], mapE.latlng[2]>>

\* the object lines 167 and 179 construct
newObject(now) ==
  IF inputType = "running"
  THEN Running(coordinatesOf(mapEvent), Number(inputDistance), Number(inputDuration),
               Number(inputCadence), DateNow(now))
  ELSE Cycling(coordinatesOf(mapEvent), Number(inputDistance), Number(inputDuration),
               Number(inputElevation), DateNow(now))

\* faulty variant: unshift instead of push
pushFront(ws, w) == <<w>> \o ws

\* line 183: this.#workouts.push(workout)
push(ws, w) == Append(ws, w)

\* _renderWorkoutMarker: L.marker(...).addTo(this.#map) throws without a map
renderWorkoutMarkerThrows(m) == ~m.ready

\* faulty variant: the log is written before the new entry is pushed
setLocalStorageBeforePush(ws) == Item(JSONstringify(SubSeq(ws, 1, Len(ws) - 1)))

\* faulty variant: only the new entry is written, not the whole log
setLocalStorageIncremental(ws) == Item(JSONstringify(<<ws[Len(ws)]>>))

\* _setLocalStorage: what the item holds after setItem('workouts', ...)
setLocalStorage(ws) == Item(JSONstringify(ws))

newWorkout ==
  /\ phase = "ready"
  /\ IF mapEventThrows(mapEvent)
     THEN /\ last' = "TypeError"
          /\ UNCHANGED <<mapEvent, workouts, listItems, markers, form, storage,
                         clock>>
     ELSE IF rejected
     THEN /\ last' = "alert"
          /\ mapEvent' = mapEventAfterAlert(mapEvent)
          /\ UNCHANGED <<workouts, listItems, markers, form, storage, clock>>
     ELSE /\ Len(workouts) < MaxWorkouts
          /\ UNCHANGED mapEvent
          /\ \E t \in clock..MaxClock : clock' = t
          /\ workouts' = push(workouts, newObject(clock'))
          /\ listItems' = Append(listItems, newObject(clock'))
          /\ IF renderWorkoutMarkerThrows(map)
             THEN /\ last' = "TypeError"
                  /\ UNCHANGED <<markers, form, storage>>
             ELSE /\ markers' = Append(markers, newObject(clock'))
                  \* _hideForm
                  /\ inputDistance' = <<>>
                  /\ inputDuration' = <<>>
                  /\ inputCadence' = <<>>
                  /\ inputElevation' = <<>>
                  /\ formHidden' = TRUE
                  /\ UNCHANGED <<inputType, elevationRowHidden>>
                  /\ IF storageMode = "ok"
                     THEN /\ storage' = setLocalStorage(workouts')
                          /\ last' = "ok"
                     ELSE /\ storage' = storage
                          /\ last' = "QuotaExceededError"
  /\ UNCHANGED <<phase, geo, map, storageMode, data>>

(***************************************************************************)
(* _centerMapOnPopup(e): a click in the list container, on the list item   *)
(* of some data-id or outside every item.                                  *)
(***************************************************************************)
RenderedIds == {listItems[i].id : i \in 1..Len(listItems)}

\* this.#workouts.find(work => work.id === id): the index of the first match,
\* 0 for undefined
find(ws, id) ==
  IF \E i \in 1..Len(ws) : ws[i].id = id
  THEN CHOOSE i \in 1..Len(ws) :
         ws[i].id = id /\ \A j \in 1..(i - 1) : ws[j].id # id
  ELSE 0

\* what can be clicked in the list container: no list item, a rendered list
\* item, a '.workout' element whose data-id is no entry's id
ClickTargets ==
  {[item |-> FALSE, id |-> StaleId]}
    \cup {[item |-> TRUE, id |-> i] : i \in RenderedIds \cup {StaleId}}

\* faulty variant: the map is taken to exist
setViewOnAnyMap(m, found) ==
  IF found = 0 THEN "TypeError(coordinates)" ELSE "setView"

\* line 275: this.#map.setView(workout.coordinates, ...).  The callee
\* this.#map.setView is evaluated first and throws when this.#map is
\* undefined; then the argument workout.coordinates, which throws when find
\* gave undefined; 'found' is the index find returned, 0 for undefined.
setView(m, found) ==
  IF ~m.ready THEN "TypeError(setView)"
  ELSE IF found = 0 THEN "TypeError(coordinates)"
  ELSE "setView"

\* the handler run on one click target
centerMapOnPopupOn(target) ==
  /\ phase = "ready"
  /\ IF ~target.item
     THEN \* if (!workoutElement) return
          last' = "ok"
     ELSE last' = setView(map, find(workouts, target.id))
  /\ UNCHANGED <<phase, geo, map, mapEvent, workouts, storage, storageMode,
                 data, listItems, markers, form, clock>>

centerMapOnPopup ==
  /\ \E target \in ClickTargets : centerMapOnPopupOn(target)
  /\ UNCHANGED <<phase, geo, map, mapEvent, workouts, storage, storageMode,
                 data, listItems, markers, form, clock>>

-----------------------------------------------------------------------------
Next ==
  \/ constructor
  \/ loadMap
  \/ locationError
  \/ showForm
  \/ typeInputs
  \/ toggleElevationField
  \/ newWorkout
  \/ centerMapOnPopup

Spec == Init /\ [][Next]_vars

(***************************************************************************)
(* The sessions of a first visit (nothing stored, storage and location     *)
(* both working) in which the user submits forms of several distances and  *)
(* durations, all at the same place of the map.                            *)
(***************************************************************************)
InitFirstVisit ==
  /\ Init
  /\ geo = "idle"
  /\ storage = NoItem
  /\ storageMode = "ok"

showFormAtHome == showFormAt({<<Num(51), Num(0)>>})

typeMetricInputs == typeInputsFrom(MetricTexts)

NextFirstVisit ==
  \/ constructor
  \/ loadMap
  \/ showFormAtHome
  \/ typeMetricInputs
  \/ toggleElevationField
  \/ newWorkout

SpecFirstVisit == InitFirstVisit /\ [][NextFirstVisit]_vars

-----------------------------------------------------------------------------
(***************************************************************************)
(* What the properties below speak of.                                     *)
(***************************************************************************)
\* the persisted snapshot, a missing item counting as the empty sequence
SnapshotText == IF storage.present THEN storage.text ELSE <<>>

\* the entries of the log that came from the snapshot read at startup
NumRestored == Len(data.text)

\* a value that is non-numeric, zero or negative
NotAPositiveNumber(x) == x.k = "nan" \/ (x.k \in {"fin", "inf"} /\ x.n <= 0)

\* a value that is finite and strictly positive
FiniteAndPositive(x) == x.k = "fin" /\ x.n > 0

\* the form holds what C1 calls an invalid submission
InvalidForm ==
  \/ NotAPositiveNumber(Number(inputDistance))
  \/ NotAPositiveNumber(Number(inputDuration))
  \/ inputType = "running" /\ NotAPositiveNumber(Number(inputCadence))
  \/ inputType = "cycling" /\ Number(inputElevation).k # "fin"

\* the form holds what C4 calls an acceptable submission
AcceptableForm ==
  /\ FiniteAndPositive(Number(inputDistance))
  /\ FiniteAndPositive(Number(inputDuration))
  /\ IF inputType = "running"
     THEN FiniteAndPositive(Number(inputCadence))
     ELSE Number(inputElevation).k = "fin"

\* two entries agree in every field (the prototype is not a field)
SameFieldValues(a, b) == [a EXCEPT !.proto = "Object"] = [b EXCEPT !.proto = "Object"]

\* the step leaves the log as it is or adds one entry at its end
AppendsAtMostOne ==
  \/ workouts' = workouts
  \/ /\ Len(workouts') = Len(workouts) + 1
     /\ SubSeq(workouts', 1, Len(workouts)) = workouts

(***************************************************************************)
(* C1.  A submit whose distance or duration (or cadence, for running) is   *)
(* non-numeric, zero or negative, or whose elevation (for cycling) is not  *)
(* finite, shows the invalid-input alert, leaves the log and the snapshot  *)
(* unchanged and issues no list-item or marker render, in every reachable  *)
(* state.                                                                  *)
(***************************************************************************)
C1_RejectionWithoutMutation ==
  [][(newWorkout /\ InvalidForm) =>
       /\ last' = "alert"
       /\ workouts' = workouts
       /\ storage' = storage
       /\ listItems' = listItems
       /\ markers' = markers]_vars

(***************************************************************************)
(* C2.  Once startup has completed and as long as storage works, the       *)
(* persisted snapshot (a missing item counting as the empty sequence) is   *)
(* the serialization of the whole in-memory log, between any two events.   *)
(***************************************************************************)
C2_SnapshotInSync ==
  (phase = "ready" /\ storageMode = "ok") => SnapshotText = JSONstringify(workouts)

\* a restored entry and, after it, an entry submitted in this session, persisted
C2_Witness ==
  /\ phase = "ready" /\ storageMode = "ok"
  /\ NumRestored = 1 /\ Len(workouts) = 2
  /\ Len(storage.text) = 2
  /\ last = "ok"

(***************************************************************************)
(* C3.  Round trip: for a log made by successful submits, what a fresh     *)
(* session restores from the persisted snapshot has the same number of     *)
(* entries, with the same ids and the same field values in the same order. *)
(***************************************************************************)
C3_RoundTrip ==
  (phase = "ready" /\ storageMode = "ok" /\ NumRestored = 0 /\ workouts # <<>>) =>
    LET restored == JSONparse(storage.text)
    IN  /\ Len(restored) = Len(workouts)
        /\ \A i \in 1..Len(workouts) : SameFieldValues(restored[i], workouts[i])

(***************************************************************************)
(* C4.  With a map click to take the coordinate from, a submit appends an  *)
(* entry if and only if distance and duration are finite and positive and  *)
(* the cadence (running) is finite and positive or the elevation (cycling) *)
(* is finite; the appended entry holds the numbers of the form.            *)
(***************************************************************************)
C4_AcceptanceCondition ==
  [][(newWorkout /\ mapEvent.set) =>
       /\ (workouts' # workouts) <=> AcceptableForm
       /\ AcceptableForm =>
            /\ workouts' = Append(workouts, workouts'[Len(workouts')])
            /\ workouts'[Len(workouts')].type = inputType
            /\ workouts'[Len(workouts')].distance = Number(inputDistance)
            /\ workouts'[Len(workouts')].duration = Number(inputDuration)
       /\ ~AcceptableForm => last' = "alert"]_vars

\* a cycling entry with a negative elevation is in the log, and a running
\* submit with a zero or negative cadence has just been turned down
C4_Witness ==
  /\ \E i \in 1..Len(workouts) :
       /\ workouts[i].proto = "Cycling"
       /\ workouts[i].elevation.n < 0
  /\ last = "alert"
  /\ mapEvent.set
  /\ inputType = "running"
  /\ Number(inputCadence).k = "fin" /\ Number(inputCadence).n <= 0
  /\ FiniteAndPositive(Number(inputDistance))
  /\ FiniteAndPositive(Number(inputDuration))

(***************************************************************************)
(* C5.  Any two distinct entries of the in-memory log have distinct ids,   *)
(* however little time passes between two submissions, restored entries    *)
(* included.                                                               *)
(***************************************************************************)
C5_IdsUnique ==
  \A i, j \in 1..Len(workouts) : i # j => workouts[i].id # workouts[j].id

(***************************************************************************)
(* C6.  After startup every step leaves the log unchanged or adds exactly  *)
(* one entry at its end: the log before is a prefix of the log after.      *)
(***************************************************************************)
C6_AppendOnly == [][phase # "load" => AppendsAtMostOne]_vars

\* a restored entry followed by an entry appended in this session
C6_Witness ==
  /\ phase = "ready"
  /\ NumRestored >= 1
  /\ Len(workouts) = NumRestored + 1
  /\ workouts[Len(workouts)].proto # "Object"
  /\ mapEvent.set

(***************************************************************************)
(* C7.  No marker render is attempted while the map does not exist: a      *)
(* marker is only ever rendered on an existing map, a submit appends (and  *)
(* goes on to the marker render) only when the map exists, and a submit    *)
(* before any map click reaches neither the append nor a render.           *)
(***************************************************************************)
C7_MarkerAfterMap ==
  [][/\ markers' # markers => map'.ready
     /\ (newWorkout /\ workouts' # workouts) => map.ready
     /\ (newWorkout /\ ~mapEvent.set) =>
          /\ workouts' = workouts
          /\ listItems' = listItems
          /\ markers' = markers
          /\ last' = "TypeError"]_vars

\* a submit before any map click has just failed, and nothing was added
C7_Witness ==
  /\ phase = "ready"
  /\ ~mapEvent.set
  /\ last = "TypeError"
  /\ AcceptableForm
  /\ Len(workouts) = NumRestored
  /\ markers = <<>>

(***************************************************************************)
(* C8.  Restore at startup: with no snapshot the log stays empty and       *)
(* nothing is rendered; with a snapshot the log becomes the deserialized   *)
(* sequence and one list item is rendered per restored entry, in stored    *)
(* order.                                                                  *)
(***************************************************************************)
C8_RestoreAtStartup ==
  [][(constructor /\ storageMode # "denied") =>
       IF ~storage.present
       THEN workouts' = <<>> /\ listItems' = <<>> /\ markers' = <<>>
       ELSE /\ workouts' = JSONparse(storage.text)
            /\ Len(listItems') = Len(storage.text)
            /\ \A i \in 1..Len(storage.text) : listItems'[i] = workouts'[i]]_vars

\* two entries restored and listed, in stored order, nothing else done yet
C8_Witness ==
  /\ phase = "ready"
  /\ NumRestored = 2
  /\ Len(listItems) = 2
  /\ listItems[1].id = data.text[1].id
  /\ listItems[2].id = data.text[2].id
  /\ listItems[1].id # listItems[2].id
  /\ ~map.ready

(***************************************************************************)
(* C9.  Restore adopts the stored records as they are: a restored entry    *)
(* is a plain object whose id and derived metric are the stored ones, at   *)
(* startup and for the rest of the session, also when the stored metric    *)
(* does not fit the stored distance and duration.                          *)
(***************************************************************************)
C9_VerbatimAdoption ==
  phase = "ready" =>
    /\ Len(workouts) >= NumRestored
    /\ \A i \in 1..NumRestored :
         /\ workouts[i].proto = "Object"
         /\ workouts[i].id = data.text[i].id
         /\ Metric(workouts[i]) = Metric(data.text[i])

\* a restored cycling entry whose speed is not distance / (duration / 60),
\* still so after the map has loaded
C9_Witness ==
  /\ phase = "ready"
  /\ map.ready
  /\ \E i \in 1..NumRestored :
       /\ workouts[i].type = "cycling"
       /\ workouts[i].speed # calcSpeed(workouts[i].distance, workouts[i].duration)

(***************************************************************************)
(* C10.  No marker render is issued for a restored entry, neither by       *)
(* restore nor later when the map finishes initialising.                   *)
(***************************************************************************)
C10_NoMarkerForRestored ==
  \A i \in 1..Len(markers) : \A j \in 1..NumRestored : markers[i] # workouts[j]

(***************************************************************************)
(* C10, amended.  Restore itself renders list items only and no marker is  *)
(* rendered while the map does not exist; when the map finishes            *)
(* initialising, _loadMap renders one marker for each entry of the log,    *)
(* restored entries included, in log order.                                *)
(***************************************************************************)
C10_MarkersWhenMapLoads ==
  [][/\ constructor => markers' = <<>>
     /\ ~map'.ready => markers' = <<>>
     /\ loadMap => (markers = <<>> /\ markers' = workouts)]_vars

\* the map has loaded and the two restored entries have their markers
C10_Witness ==
  /\ map.ready
  /\ NumRestored = 2
  /\ Len(markers) = 2
  /\ markers[1] = workouts[1]
  /\ markers[2] = workouts[2]

\* a value that is strictly positive
Positive(x) == x.k \in {"fin", "inf"} /\ x.n > 0

\* the entry a step has put at the end of the log
Appended == workouts'[Len(workouts')]

\* the '.workout' element whose data-id is no entry's id
StaleItem == [item |-> TRUE, id |-> StaleId]

(***************************************************************************)
(* C11.  After a submit fails validation the map-click coordinate is no    *)
(* longer available, so that no later submit can succeed before a new map  *)
(* click.                                                                  *)
(***************************************************************************)
C11_CoordinateDiscarded ==
  [][(newWorkout /\ last' = "alert") => ~mapEvent'.set]_vars

(***************************************************************************)
(* C11, amended.  A submit that fails validation leaves the map-click      *)
(* coordinate stored; only a new map click replaces a stored coordinate;   *)
(* and with a coordinate stored an acceptable submit appends an entry that *)
(* carries it.  So a corrected resubmission without a map click in between *)
(* appends an entry at the coordinate of the earlier click.                *)
(***************************************************************************)
C11_CoordinateKept ==
  [][/\ (newWorkout /\ last' = "alert") => (mapEvent.set /\ mapEvent' = mapEvent)
     /\ mapEvent.set => (mapEvent' = mapEvent \/ showForm)
     /\ (newWorkout /\ mapEvent.set /\ AcceptableForm) =>
          /\ Len(workouts') = Len(workouts) + 1
          /\ Appended.coordinates = mapEvent.latlng]_vars

\* a submit has just been turned down and the clicked coordinate is still there
C11_Witness ==
  /\ last = "alert"
  /\ mapEvent.set
  /\ ~formHidden
  /\ InvalidForm

C14_StaleIdIgnored ==
  [][(centerMapOnPopupOn(StaleItem) /\ map.ready) =>
       /\ last' = "ok"
       /\ workouts' = workouts
       /\ storage' = storage]_vars

(***************************************************************************)
(* C15.  When reading the snapshot fails at startup the session starts     *)
(* with an empty log and its handlers registered.                          *)
(***************************************************************************)
C15_RestoreDegrades ==
  (phase # "load" /\ storageMode = "denied") => (phase = "ready" /\ workouts = <<>>)

(***************************************************************************)
(* C16.  The map gets initialised whether the location is obtained, is     *)
(* refused or is unavailable: once startup is over and no location         *)
(* callback is outstanding, the map exists.                                *)
(***************************************************************************)
C16_MapInitialised ==
  (phase # "load" /\ geo # "pending") => map.ready

(***************************************************************************)
(* C17.  A successful submit appends exactly one entry, renders one list   *)
(* item and one marker for that entry, clears and hides the form, and      *)
(* writes the snapshot last, new entry included; when the write fails the  *)
(* entry stays in the log.                                                 *)
(***************************************************************************)
C17_SubmitEffects ==
  [][(newWorkout /\ workouts' # workouts) =>
       /\ workouts' = Append(workouts, Appended)
       /\ listItems' = Append(listItems, Appended)
       /\ markers' = Append(markers, Appended)
       /\ <<inputDistance', inputDuration', inputCadence', inputElevation'>> = Cleared
       /\ formHidden'
       /\ IF storageMode = "ok"
          THEN storage' = Item(JSONstringify(workouts')) /\ last' = "ok"
          ELSE storage' = storage /\ last' = "QuotaExceededError"]_vars

\* the write of the snapshot has just failed; the entry is in the log, listed
\* and marked, and the snapshot is the one of the earlier session
C17_Witness ==
  /\ storageMode = "full"
  /\ last = "QuotaExceededError"
  /\ Len(workouts) = NumRestored + 1
  /\ workouts[Len(workouts)].proto # "Object"
  /\ listItems[Len(listItems)] = workouts[Len(workouts)]
  /\ markers[Len(markers)] = workouts[Len(workouts)]
  /\ Len(storage.text) = NumRestored
  /\ formHidden

(***************************************************************************)
(* C18.  Once the map exists, between events, every entry of the log,      *)
(* restored or submitted, has had exactly one marker rendered: the markers *)
(* rendered are the entries of the log, one each, none missing and none    *)
(* twice.                                                                  *)
(***************************************************************************)
C18_OneMarkerPerEntry ==
  map.ready =>
    /\ Len(markers) = Len(workouts)
    /\ \A i \in 1..Len(workouts) : markers[i] = workouts[i]

\* a restored entry and a submitted one, each with its marker
C18_Witness ==
  /\ map.ready
  /\ NumRestored = 1
  /\ Len(workouts) = 2
  /\ workouts[2].proto # "Object"
  /\ Len(markers) = 2

C20_CoordinateBinding ==
  [][/\ (newWorkout /\ workouts' # workouts) =>
          (mapEvent.set /\ Appended.coordinates = mapEvent.latlng)
     /\ showForm => (workouts' = workouts /\ mapEvent'.set)
     /\ \A i \in 1..Len(workouts) :
          phase # "load" => workouts'[i].coordinates = workouts[i].coordinates]_vars

\* two entries submitted after clicks at two places, and a later click at the
\* place of the first
C20_Witness ==
  /\ NumRestored = 0
  /\ Len(workouts) = 2
  /\ workouts[1].coordinates # workouts[2].coordinates
  /\ mapEvent.set
  /\ mapEvent.latlng = workouts[1].coordinates
  /\ ~formHidden

(***************************************************************************)
(* C13.  An entry made by a successful submit stores pace = duration /     *)
(* distance when it is a running entry and speed = distance /              *)
(* (duration / 60) when it is a cycling entry, and the stored value never  *)
(* changes afterwards.  The quotients are stated by cross-multiplication:  *)
(* pace * distance = duration, speed * duration = 60 * distance.           *)
(***************************************************************************)
C13_DerivedMetric ==
  [][phase # "load" =>
       /\ \A i \in 1..Len(workouts') :
            LET w == workouts'[i]
            IN  IF w.type = "running"
                THEN /\ w.pace.k = "fin"
                     /\ w.pace.n * w.distance.n * w.duration.d
                          = w.duration.n * w.distance.d * w.pace.d
                ELSE /\ w.speed.k = "fin"
                     /\ w.speed.n * w.duration.n * w.distance.d
                          = 60 * w.distance.n * w.duration.d * w.speed.d
       /\ \A i \in 1..Len(workouts) :
            Metric(workouts'[i]) = Metric(workouts[i])]_vars

\* a run of 2 km in 7 min at 7/2 min/km and a ride of 10 km in 45 min at
\* 40/3 km/h are in the log
C13_Witness ==
  /\ Len(workouts) = 2
  /\ \E i, j \in 1..2 :
       /\ workouts[i].proto = "Running"
       /\ workouts[i].distance = Num(2)
       /\ workouts[i].pace = Ratio(7, 2)
       /\ workouts[j].proto = "Cycling"
       /\ workouts[j].duration = Num(45)
       /\ workouts[j].speed = Ratio(40, 3)

=============================================================================
